---------------------------- MODULE Spec2Model ----------------------------
(***************************************************************************)
(* Model of the mifare crate: the typed address model of src/numerics.rs   *)
(* and the tag / authenticated-sector protocol layer of src/lib.rs.        *)
(*                                                                         *)
(* A behaviour is one single-threaded client session.  The numerics part   *)
(* keeps the address values the client currently holds (one per address    *)
(* type) and the client derives new ones with the public operations.  The  *)
(* protocol part keeps the transport, the MifareTag wrapping it, the       *)
(* AuthenticatedSector handles borrowed from it and the exchanges made.    *)
(*                                                                         *)
(* SpecNum explores the numerics from every raw u8 input.                  *)
(* SpecTag explores the protocol layer.  Its sector argument ranges over   *)
(* values of the type SectorBlockOffset<Cap4K> (a u8 that is a multiple of *)
(* 4); see SectorBlockOffset4KArgs for why it is drawn from the type and   *)
(* not from the constructors.                                              *)
(***************************************************************************)
EXTENDS Integers, Sequences, FiniteSets

VARIABLES
    raw,        \* the raw u8 the client starts from
    sn,         \* the SectorNumber<Cap> in hand (or NoValue)
    bo,         \* the BlockOffset in hand
    abo,        \* the AbsoluteBlockOffset<Cap> in hand
    sbo,        \* the SectorBlockOffset<Cap> in hand
    last,       \* the numerics operation that ran last
    conv,       \* the running From<SectorNumber> for SectorBlockOffset call
    abort,      \* "none", or why the process died (panic / stack overflow)
    transport,  \* the identifier the transport reports (tag_id())
    tag,        \* result of MifareTag::new: "unbuilt", "None" or "Some"
    handles,    \* the AuthenticatedSector values alive (each borrows the tag)
    call,       \* the protocol-layer call that returned last
    log         \* history of exchanges and handle releases on the tag

vars == <<raw, sn, bo, abo, sbo, last, conv, abort, transport, tag, handles, call, log>>

numVars == <<sn, bo, abo, sbo, last, conv>>
tagVars == <<tag, handles, call, log>>

---------------------------------------------------------------------------
(* Bounds *)

\* Stack frames available to a recursive call before the process dies.
MaxDepth == 3

\* Number of exchanges / releases recorded on one tag.
MaxLog == 3

---------------------------------------------------------------------------
(* u8 and the capacities: src/numerics.rs *)

U8 == 0..255

Caps == {"Cap1K", "Cap4K"}

\* `as u8`: truncation to 8 bits
as_u8(x) == x % 256

\* u8 `+`: the sum kept to 8 bits, and whether it left the u8 range
u8_add(l, r) == [v |-> (l + r) % 256, ovf |-> l + r > 255]

bytes(cap) == IF cap = "Cap1K" THEN 1024 ELSE 4096

max_sectors(cap) == as_u8(bytes(cap) \div 64)

max_blocks(cap) == as_u8(bytes(cap) \div 16)

---------------------------------------------------------------------------
(* Address values.  `of` is bookkeeping: the absolute offset a value was   *)
(* decomposed from (-1 when it was not); `ovf` records a u8 overflow in    *)
(* the addition that produced the value.                                   *)

NoValue == [some |-> FALSE, cap |-> "-", v |-> 0, of |-> -1, ovf |-> FALSE]

Value(cap, v, of, ovf) == [some |-> TRUE, cap |-> cap, v |-> v, of |-> of, ovf |-> ovf]

SectorNumber_new(cap, sector_number) ==
    IF sector_number < max_sectors(cap)
        THEN Value(cap, sector_number, -1, FALSE)
        ELSE NoValue

BlockOffset_new(block_offset) ==
    IF block_offset < 3
        THEN Value("-", block_offset, -1, FALSE)
        ELSE NoValue

AbsoluteBlockOffset_new(cap, block_offset) ==
    IF block_offset < max_blocks(cap)
        THEN Value(cap, block_offset, -1, FALSE)
        ELSE NoValue

SectorBlockOffset_new(cap, block_offset) ==
    IF block_offset < max_blocks(cap) /\ block_offset % 4 = 0
        THEN Value(cap, block_offset, -1, FALSE)
        ELSE NoValue

sector_offset_div(a) == Value(a.cap, a.v \div 4, a.v, FALSE)

sector_offset(a) == Value(a.cap, a.v - (a.v % 4), a.v, FALSE)

block_within_sector(a) == Value("-", a.v % 4, a.v, FALSE)

sector_trailer(s) ==
    LET sum == u8_add(s.v, 3)
    IN  Value(s.cap, sum.v, -1, sum.ovf)

\* From<X> for u8
u8_from(x) == x.v

\* From<SectorBlockOffset<Cap>> for SectorNumber<Cap>
SectorNumber_from(s) == Value(s.cap, s.v \div 4, -1, FALSE)

\* From<SectorNumber1K> for SectorNumber4K
SectorNumber4K_from(n) == Value("Cap4K", n.v, -1, FALSE)

\* Add<BlockOffset> for SectorBlockOffset<Cap>
add(s, offset) ==
    LET lhs == u8_from(s)
        rhs == u8_from(offset)
        sum == u8_add(lhs, rhs)
    IN  Value(s.cap, sum.v, IF s.of = offset.of THEN s.of ELSE -1, sum.ovf)

\* SectorNumber<CapF>: Into<SectorNumber<CapT>> holds for these pairs
\* (the reflexive From<T> for T, and From<SectorNumber1K> for SectorNumber4K).
IntoSectorNumber == {<<"Cap1K", "Cap1K">>, <<"Cap4K", "Cap4K">>, <<"Cap1K", "Cap4K">>}

Idle == [pc |-> "idle", depth |-> 0, capF |-> "-", capT |-> "-", caller |-> "-"]

---------------------------------------------------------------------------
(* Numerics operations of the client *)

Running == abort = "none" /\ conv.pc = "idle"

Op(name, cap) == [op |-> name, cap |-> cap]

NewSectorNumber(cap) ==
    /\ Running
    /\ sn' = SectorNumber_new(cap, raw)
    /\ last' = Op("SectorNumber::new", cap)
    /\ UNCHANGED <<raw, bo, abo, sbo, conv, abort, transport, tagVars>>

NewBlockOffset ==
    /\ Running
    /\ bo' = BlockOffset_new(raw)
    /\ last' = Op("BlockOffset::new", "-")
    /\ UNCHANGED <<raw, sn, abo, sbo, conv, abort, transport, tagVars>>

NewAbsoluteBlockOffset(cap) ==
    /\ Running
    /\ abo' = AbsoluteBlockOffset_new(cap, raw)
    /\ last' = Op("AbsoluteBlockOffset::new", cap)
    /\ UNCHANGED <<raw, sn, bo, sbo, conv, abort, transport, tagVars>>

NewSectorBlockOffset(cap) ==
    /\ Running
    /\ sbo' = SectorBlockOffset_new(cap, raw)
    /\ last' = Op("SectorBlockOffset::new", cap)
    /\ UNCHANGED <<raw, sn, bo, abo, conv, abort, transport, tagVars>>

SectorOffset ==
    /\ Running
    /\ abo.some
    /\ sbo' = sector_offset(abo)
    /\ last' = Op("sector_offset", abo.cap)
    /\ UNCHANGED <<raw, sn, bo, abo, conv, abort, transport, tagVars>>

BlockWithinSector ==
    /\ Running
    /\ abo.some
    /\ bo' = block_within_sector(abo)
    /\ last' = Op("block_within_sector", abo.cap)
    /\ UNCHANGED <<raw, sn, abo, sbo, conv, abort, transport, tagVars>>

SectorTrailer ==
    /\ Running
    /\ sbo.some
    /\ abo' = sector_trailer(sbo)
    /\ last' = Op("sector_trailer", sbo.cap)
    /\ UNCHANGED <<raw, sn, bo, sbo, conv, abort, transport, tagVars>>

AddBlockOffset ==
    /\ Running
    /\ sbo.some
    /\ bo.some
    /\ abo' = add(sbo, bo)
    /\ last' = Op("add", sbo.cap)
    /\ UNCHANGED <<raw, sn, bo, sbo, conv, abort, transport, tagVars>>

SectorNumberFromOffset ==
    /\ Running
    /\ sbo.some
    /\ sn' = SectorNumber_from(sbo)
    /\ last' = Op("SectorNumber::from", sbo.cap)
    /\ UNCHANGED <<raw, bo, abo, sbo, conv, abort, transport, tagVars>>

WidenSectorNumber ==
    /\ Running
    /\ sn.some
    /\ sn.cap = "Cap1K"
    /\ sn' = SectorNumber4K_from(sn)
    /\ last' = Op("SectorNumber4K::from", "Cap4K")
    /\ UNCHANGED <<raw, bo, abo, sbo, conv, abort, transport, tagVars>>

(* From<SectorNumber<CapF>> for SectorBlockOffset<CapT>:                   *)
(*     fn from(sector_number) -> Self { sector_number.into().into() }      *)
(* The first into() turns SectorNumber<CapF> into SectorNumber<CapT>.  The *)
(* second needs SectorNumber<CapT>: Into<SectorBlockOffset<CapT>>, and the *)
(* only impl that provides it is this very impl with CapF = CapT: the body *)
(* calls itself, one stack frame per call, and never reaches a return.     *)
from_enter(capF, capT, caller) ==
    [pc |-> "from", depth |-> 1, capF |-> capF, capT |-> capT, caller |-> caller]

from_recurse(c) ==
    [c EXCEPT !.depth = c.depth + 1, !.capF = c.capT]

SectorBlockOffsetFromNumber(capT) ==
    /\ Running
    /\ sn.some
    /\ <<sn.cap, capT>> \in IntoSectorNumber
    /\ conv' = from_enter(sn.cap, capT, "client")
    /\ last' = Op("SectorBlockOffset::from", capT)
    /\ UNCHANGED <<raw, sn, bo, abo, sbo, abort, transport, tagVars>>

FromRecurse ==
    /\ abort = "none"
    /\ conv.pc = "from"
    /\ conv.depth < MaxDepth
    /\ conv' = from_recurse(conv)
    /\ UNCHANGED <<raw, sn, bo, abo, sbo, last, abort, transport, tagVars>>

FromStackOverflow ==
    /\ abort = "none"
    /\ conv.pc = "from"
    /\ conv.depth = MaxDepth
    /\ abort' = "stack overflow"
    /\ UNCHANGED <<raw, sn, bo, abo, sbo, last, conv, transport, tagVars>>

---------------------------------------------------------------------------
(* SpecNum: the numerics alone, from every raw u8 *)

NoCall ==
    [op |-> "-", args |-> <<>>, exchanges |-> <<>>, ret |-> "-", handle |-> FALSE, id |-> <<>>]

InitNum ==
    /\ raw \in U8
    /\ sn = NoValue
    /\ bo = NoValue
    /\ abo = NoValue
    /\ sbo = NoValue
    /\ last = Op("-", "-")
    /\ conv = Idle
    /\ abort = "none"
    /\ transport = <<>>
    /\ tag = "unbuilt"
    /\ handles = <<>>
    /\ call = NoCall
    /\ log = <<>>

NextNum ==
    \/ \E cap \in Caps : NewSectorNumber(cap)
    \/ NewBlockOffset
    \/ \E cap \in Caps : NewAbsoluteBlockOffset(cap)
    \/ \E cap \in Caps : NewSectorBlockOffset(cap)
    \/ SectorOffset
    \/ BlockWithinSector
    \/ SectorTrailer
    \/ AddBlockOffset
    \/ SectorNumberFromOffset
    \/ WidenSectorNumber
    \/ \E capT \in Caps : SectorBlockOffsetFromNumber(capT)
    \/ FromRecurse
    \/ FromStackOverflow

SpecNum == InitNum /\ [][NextNum]_vars

---------------------------------------------------------------------------
(* Protocol layer: src/lib.rs *)

\* Identifiers a transport may report (NFCTag::tag_id), of lengths 0, 4, 5, 7, 8.
TagIds ==
    { <<>>,
      <<1, 2, 3, 4>>,
      <<1, 2, 3, 4, 5>>,
      <<4, 17, 34, 51, 68, 85, 102>>,
      <<1, 2, 3, 4, 5, 6, 7, 8>> }

KeyOptions == {"KeyA", "KeyB"}

Keys == { <<255, 255, 255, 255, 255, 255>>, <<160, 161, 162, 163, 164, 165>> }

\* 16-byte blocks to write
Blocks == { [i \in 1..16 |-> 0], [i \in 1..16 |-> 16 + i] }

\* Lengths of the slice a caller hands to read_block (buf: &mut [u8])
BufLens == {16}

\* What one NFCTag::transceive call may return: Ok(bytes written) or Err(e).
TransceiveResults ==
    { [ok |-> TRUE,  n |-> 0,  e |-> "-"],
      [ok |-> TRUE,  n |-> 16, e |-> "-"],
      [ok |-> FALSE, n |-> 0,  e |-> "Timeout"],
      [ok |-> FALSE, n |-> 0,  e |-> "Nack"] }

(* authenticate_sector takes sector_number: SN with SN: Into<SectorBlockOffset4K>. *)
(* A SectorNumber argument goes through the From impl modelled above, which *)
(* never returns.  A SectorBlockOffset4K argument is passed through as is.  *)
(* SectorBlockOffset::<Cap4K>::new rejects every u8 (max_blocks() is 0 for  *)
(* Cap4K), so no constructor yields such a value; the argument is drawn     *)
(* from the values the type is declared to hold, u8 multiples of 4, which   *)
(* is what authenticate_sector and AuthenticatedSector are written against. *)
SectorBlockOffset4KArgs == { Value("Cap4K", s, -1, FALSE) : s \in {0, 8, 252} }

\* Sector numbers a client can hold: what SectorNumber::new returns.
SectorNumberArgs ==
    { n \in { SectorNumber_new(cap, 2) : cap \in Caps } : n.some }

\* Block offsets a client can hold: what BlockOffset::new returns, and what
\* block_within_sector returns on an AbsoluteBlockOffset from new.
OffsetRaws == {1, 3}

BlockOffsetArgs ==
    LET made    == { BlockOffset_new(n) : n \in OffsetRaws }
        abs     == { AbsoluteBlockOffset_new(cap, n) : cap \in Caps, n \in OffsetRaws }
        derived == { block_within_sector(a) : a \in { x \in abs : x.some } }
    IN  { o \in made \cup derived : o.some }

valid_id_len_atleast(id_len) == id_len >= 4

valid_id_len(id_len) == id_len = 4 \/ id_len = 7

MifareTag_new(t) == IF valid_id_len(Len(t)) THEN "Some" ELSE "None"

\* MifareTag::tag_id: self.tag.tag_id()
tag_id(t) == t

try_transceive_swallow(req, buf, r) ==
    [exchanges |-> <<[req |-> req, buf |-> buf, res |-> r]>>, ret |-> "Ok"]

\* try!(tag.transceive(req, buf)): one exchange; Err(e) returns e at once
try_transceive(req, buf, r) ==
    [exchanges |-> <<[req |-> req, buf |-> buf, res |-> r]>>,
     ret |-> IF r.ok THEN "Ok" ELSE r.e]

cmd_byte(key_option) == IF key_option = "KeyA" THEN 96 ELSE 97

auth_cmd_buf(cmd, start, key, id) ==
    LET buf == <<cmd, u8_from(start),
                 key[1], key[2], key[3], key[4], key[5], key[6],
                 id[1], id[2], id[3], id[4], 0, 0, 0>>
    IN  IF Len(id) = 7
            THEN [buf EXCEPT ![13] = id[5], ![14] = id[6], ![15] = id[7]]
            ELSE buf

auth_cmd_unsliced(buf, len) == buf

auth_cmd(buf, len) == IF len = 4 THEN SubSeq(buf, 1, 12) ELSE buf

Outcome(panic, x, handle) ==
    [panic |-> panic, exchanges |-> x.exchanges, ret |-> x.ret, handle |-> handle]

NoExchange == [exchanges |-> <<>>, ret |-> "-"]

authenticate_sector(id, start, key_option, key, r) ==
    IF Len(id) < 4
        THEN Outcome("index out of bounds", NoExchange, FALSE)
    ELSE IF Len(id) \notin {4, 7}
        THEN Outcome("unreachable", NoExchange, FALSE)
    ELSE LET buf == auth_cmd_buf(cmd_byte(key_option), start, key, id)
             x   == try_transceive(auth_cmd(buf, Len(id)), 16, r)
         IN  Outcome("none", x, x.ret = "Ok")

read_cmd_sector(start, offset) == <<48, u8_from(start)>>

read_cmd(start, offset) == <<48, u8_from(add(start, offset))>>

read_block(h, offset, buflen, r) ==
    try_transceive(read_cmd(h.sector_offset, offset), buflen, r)

write_cmd(offset, data) == <<160, u8_from(offset)>> \o data

write_block_raw(h, offset, data, r) ==
    try_transceive(write_cmd(offset, data), 16, r)

write_block(h, offset, data, r) ==
    write_block_raw(h, add(h.sector_offset, offset), data, r)

write_keys(h, data, r) ==
    write_block_raw(h, sector_trailer(h.sector_offset), data, r)

\* What the exchanges of one call leave in the history: opcode, address, result.
Events(exchanges) ==
    [i \in 1..Len(exchanges) |->
        [k |-> "exchange", opcode |-> exchanges[i].req[1],
         addr |-> exchanges[i].req[2], ok |-> exchanges[i].res.ok]]

ReleaseEvent == [k |-> "release", opcode |-> 0, addr |-> 0, ok |-> TRUE]

Returned(op, args, x, handle) ==
    [op |-> op, args |-> args, exchanges |-> x.exchanges, ret |-> x.ret,
     handle |-> handle, id |-> <<>>]

borrowable_always == TRUE

\* authenticate_sector(&'s mut self) -> AuthenticatedSector<'s, T>: the tag
\* is mutably borrowed for as long as a returned handle lives.
borrowable == handles = <<>>

---------------------------------------------------------------------------
(* Protocol operations of the client *)

MifareTagNew ==
    /\ Running
    /\ tag = "unbuilt"
    /\ tag' = MifareTag_new(transport)
    /\ call' = [NoCall EXCEPT !.op = "MifareTag::new"]
    /\ UNCHANGED <<raw, numVars, abort, transport, handles, log>>

TagId ==
    /\ Running
    /\ tag = "Some"
    /\ borrowable
    /\ call' = [NoCall EXCEPT !.op = "tag_id", !.id = tag_id(transport)]
    /\ UNCHANGED <<raw, numVars, abort, transport, tag, handles, log>>

AuthenticateSector(s, key_option, key, r) ==
    /\ Running
    /\ tag = "Some"
    /\ borrowable
    /\ Len(log) < MaxLog
    /\ LET out == authenticate_sector(transport, s, key_option, key, r)
       IN  IF out.panic # "none"
               THEN /\ abort' = out.panic
                    /\ UNCHANGED <<handles, call, log>>
               ELSE /\ call' = Returned("authenticate_sector",
                                        [s |-> s, key_option |-> key_option, key |-> key],
                                        out, out.handle)
                    /\ handles' = IF out.handle
                                      THEN Append(handles, [sector_offset |-> s])
                                      ELSE handles
                    /\ log' = log \o Events(out.exchanges)
                    /\ UNCHANGED abort
    /\ UNCHANGED <<raw, numVars, transport, tag>>

\* authenticate_sector called with a SectorNumber: sector_number.into()
AuthenticateSectorNumber(n) ==
    /\ Running
    /\ tag = "Some"
    /\ borrowable
    /\ <<n.cap, "Cap4K">> \in IntoSectorNumber
    /\ conv' = from_enter(n.cap, "Cap4K", "authenticate_sector")
    /\ UNCHANGED <<raw, sn, bo, abo, sbo, last, abort, transport, tagVars>>

ReadBlock(i, offset, buflen, r) ==
    /\ Running
    /\ i \in 1..Len(handles)
    /\ Len(log) < MaxLog
    /\ LET x == read_block(handles[i], offset, buflen, r)
       IN  /\ call' = Returned("read_block",
                               [s |-> handles[i].sector_offset, offset |-> offset, buflen |-> buflen],
                               x, FALSE)
           /\ log' = log \o Events(x.exchanges)
    /\ UNCHANGED <<raw, numVars, abort, transport, tag, handles>>

WriteBlock(i, offset, data, r) ==
    /\ Running
    /\ i \in 1..Len(handles)
    /\ Len(log) < MaxLog
    /\ LET x == write_block(handles[i], offset, data, r)
       IN  /\ call' = Returned("write_block",
                               [s |-> handles[i].sector_offset, offset |-> offset, data |-> data],
                               x, FALSE)
           /\ log' = log \o Events(x.exchanges)
    /\ UNCHANGED <<raw, numVars, abort, transport, tag, handles>>

WriteKeys(i, data, r) ==
    /\ Running
    /\ i \in 1..Len(handles)
    /\ Len(log) < MaxLog
    /\ LET x == write_keys(handles[i], data, r)
       IN  /\ call' = Returned("write_keys",
                               [s |-> handles[i].sector_offset, data |-> data],
                               x, FALSE)
           /\ log' = log \o Events(x.exchanges)
    /\ UNCHANGED <<raw, numVars, abort, transport, tag, handles>>

\* The AuthenticatedSector goes out of scope: the borrow of the tag ends.
Release(i) ==
    /\ Running
    /\ i \in 1..Len(handles)
    /\ Len(log) < MaxLog
    /\ handles' = SubSeq(handles, 1, i - 1) \o SubSeq(handles, i + 1, Len(handles))
    /\ log' = Append(log, ReleaseEvent)
    /\ UNCHANGED <<raw, numVars, abort, transport, tag, call>>

---------------------------------------------------------------------------
(* SpecTag: one transport, the tag built on it, and the client's calls *)

InitTag ==
    /\ raw = 0
    /\ sn = NoValue
    /\ bo = NoValue
    /\ abo = NoValue
    /\ sbo = NoValue
    /\ last = Op("-", "-")
    /\ conv = Idle
    /\ abort = "none"
    /\ transport \in TagIds
    /\ tag = "unbuilt"
    /\ handles = <<>>
    /\ call = NoCall
    /\ log = <<>>

NextTag ==
    \/ MifareTagNew
    \/ TagId
    \/ \E s \in SectorBlockOffset4KArgs, ko \in KeyOptions, key \in Keys, r \in TransceiveResults :
          AuthenticateSector(s, ko, key, r)
    \/ \E n \in SectorNumberArgs : AuthenticateSectorNumber(n)
    \/ FromRecurse
    \/ FromStackOverflow
    \/ \E i \in DOMAIN handles, o \in BlockOffsetArgs, n \in BufLens, r \in TransceiveResults :
          ReadBlock(i, o, n, r)
    \/ \E i \in DOMAIN handles, o \in BlockOffsetArgs, d \in Blocks, r \in TransceiveResults :
          WriteBlock(i, o, d, r)
    \/ \E i \in DOMAIN handles, d \in Blocks, r \in TransceiveResults : WriteKeys(i, d, r)
    \/ \E i \in DOMAIN handles : Release(i)

SpecTag == InitTag /\ [][NextTag]_vars

---------------------------------------------------------------------------
(* Properties *)

\* Limits as the specification states them: bytes/64 sectors, bytes/16 blocks.
StatedMaxSectors(cap) == IF cap = "Cap1K" THEN 16 ELSE 64

StatedMaxBlocks(cap) == IF cap = "Cap1K" THEN 64 ELSE 256

\* C1: every address value that exists satisfies its type's range predicate:
\* BlockOffset in [0,2], SectorNumber<C> in [0, max_sectors(C)),
\* AbsoluteBlockOffset<C> in [0, max_blocks(C)), SectorBlockOffset<C> in
\* [0, max_blocks(C)) and a multiple of 4.
C1_AddressesInRange ==
    /\ bo.some => bo.v \in 0..2
    /\ sn.some => sn.v \in 0..(StatedMaxSectors(sn.cap) - 1)
    /\ abo.some => abo.v \in 0..(StatedMaxBlocks(abo.cap) - 1)
    /\ sbo.some => sbo.v \in 0..(StatedMaxBlocks(sbo.cap) - 1) /\ sbo.v % 4 = 0

\* C3: for each capacity and every raw n, SectorNumber::new(n) is present iff
\* n < maxSectors (16, 64); AbsoluteBlockOffset::new(n) iff n < maxBlocks
\* (64, 256); SectorBlockOffset::new(n) iff n < maxBlocks and n % 4 = 0;
\* BlockOffset::new(n) iff n <= 2.
C3_ConstructorsPresentIffInRange ==
    /\ last.op = "SectorNumber::new" =>
          (sn.some <=> raw < StatedMaxSectors(last.cap))
    /\ last.op = "AbsoluteBlockOffset::new" =>
          (abo.some <=> raw < StatedMaxBlocks(last.cap))
    /\ last.op = "SectorBlockOffset::new" =>
          (sbo.some <=> (raw < StatedMaxBlocks(last.cap) /\ raw % 4 = 0))
    /\ last.op = "BlockOffset::new" =>
          (bo.some <=> raw <= 2)

\* C4: converting a valid sector number n to a sector-start offset returns
\* (the call does not die) and yields n * 4; converting a sector-start offset
\* s to a sector number yields s / 4, so the two conversions round-trip.
C4_SectorConversionsReturnAndRoundTrip ==
    /\ abort # "stack overflow"
    /\ (last.op = "SectorBlockOffset::from" /\ conv.pc = "idle") =>
          (sbo.some /\ sbo.v = 4 * sn.v)
    /\ last.op = "SectorNumber::from" =>
          (sn.some /\ sn.v = sbo.v \div 4 /\ 4 * sn.v = sbo.v)

\* C9: for every valid absolute block offset a, sector_offset(a) is a rounded
\* down to a multiple of 4, block_within_sector(a) is a mod 4, and their sum
\* has the raw value a, computed without u8 overflow.  The last conjunct
\* applies the three operations to a Cap4K offset of every raw u8 value,
\* the declared range of AbsoluteBlockOffset<Cap4K>.
C9_DecompositionLossless ==
    /\ (sbo.some /\ sbo.of >= 0) =>
          (sbo.v = 4 * (sbo.of \div 4) /\ sbo.v <= sbo.of /\ sbo.of - sbo.v < 4)
    /\ (bo.some /\ bo.of >= 0) => bo.v = bo.of % 4
    /\ (abo.some /\ abo.of >= 0) => (abo.v = abo.of /\ ~abo.ovf)
    /\ (abo.some /\ last.op = "add") => ~abo.ovf
    /\ LET a == Value("Cap4K", raw, raw, FALSE)
           r == add(sector_offset(a), block_within_sector(a))
       IN  r.v = raw /\ ~r.ovf /\ r.of = raw

\* C9 witness: 63 = 60 + 3 was decomposed and added back.
C9_Witness ==
    /\ last.op = "add"
    /\ abo.some /\ abo.of = 63 /\ abo.v = 63
    /\ sbo.v = 60 /\ bo.v = 3

IsAuth(e) == e.k = "exchange" /\ e.opcode \in {96, 97}

IsBlock(e) == e.k = "exchange" /\ e.opcode \in {48, 160}

C5_BlockAccessOnlyUnderAuthentication ==
    /\ Len(handles) <= 1
    /\ \A i \in DOMAIN log :
          IsBlock(log[i]) =>
              \E j \in 1..(i - 1) :
                  /\ IsAuth(log[j]) /\ log[j].ok
                  /\ log[j].addr = 4 * (log[i].addr \div 4)
                  /\ \A m \in (j + 1)..(i - 1) : IsBlock(log[m])
    /\ (handles # <<>>) =>
          \E j \in DOMAIN log :
              /\ IsAuth(log[j]) /\ log[j].ok
              /\ log[j].addr = handles[1].sector_offset.v
              /\ \A m \in (j + 1)..Len(log) : IsBlock(log[m])

\* C5 witness: authenticated, accessed a block, released the handle.
C5_Witness ==
    /\ Len(log) = 3
    /\ IsAuth(log[1]) /\ log[1].ok
    /\ IsBlock(log[2])
    /\ log[3].k = "release"
    /\ handles = <<>>

\* C6: authenticate_sector issues exactly one exchange, whose request is
\* [0x60 for key A / 0x61 for key B, s, key[0..6], id...]: 12 bytes for a
\* 4-byte identifier, 15 for a 7-byte one, with a 16-byte response buffer.
C6_AuthenticateRequest ==
    call.op = "authenticate_sector" =>
        /\ Len(call.exchanges) = 1
        /\ call.exchanges[1].req =
              <<IF call.args.key_option = "KeyA" THEN 96 ELSE 97, call.args.s.v>>
                  \o call.args.key \o transport
        /\ Len(call.exchanges[1].req) = (IF Len(transport) = 4 THEN 12 ELSE 15)
        /\ call.exchanges[1].buf = 16

\* C6 witness: identifier [1,2,3,4], sector start 8, key A, key FF x 6.
C6_Witness ==
    /\ call.op = "authenticate_sector"
    /\ call.exchanges[1].req = <<96, 8, 255, 255, 255, 255, 255, 255, 1, 2, 3, 4>>

C8_TransportErrorsPropagate ==
    /\ call.op \in {"authenticate_sector", "read_block", "write_block", "write_keys"} =>
          /\ Len(call.exchanges) = 1
          /\ ~call.exchanges[1].res.ok => call.ret = call.exchanges[1].res.e
          /\ call.exchanges[1].res.ok => call.ret = "Ok"
    /\ call.op = "authenticate_sector" =>
          /\ call.handle <=> call.exchanges[1].res.ok
          /\ ~call.exchanges[1].res.ok => (handles = <<>> /\ tag = "Some")
    /\ call.op # "authenticate_sector" => ~call.handle

\* C8 witness: a first authenticate failed, and the one after it returned
\* the transport's error "Nack".
C8_Witness ==
    /\ call.op = "authenticate_sector"
    /\ call.ret = "Nack"
    /\ Len(log) = 2
    /\ IsAuth(log[1]) /\ ~log[1].ok
    /\ IsAuth(log[2]) /\ ~log[2].ok

\* C10: MifareTag::new returns a tag iff the identifier has length 4 or 7;
\* tag_id() returns the transport's identifier unchanged; authenticate_sector
\* never indexes past the identifier nor reaches the unreachable length arm.
C10_TagOnlyForValidIdentifier ==
    /\ tag # "unbuilt" => (tag = "Some" <=> Len(transport) \in {4, 7})
    /\ call.op = "tag_id" => call.id = transport
    /\ abort \notin {"index out of bounds", "unreachable"}

\* C10 witness: a tag with a 7-byte identifier authenticated a sector.
C10_Witness ==
    /\ tag = "Some"
    /\ Len(transport) = 7
    /\ call.op = "authenticate_sector"
    /\ call.handle

=============================================================================
